---- MODULE Spec2Model ----
(***************************************************************************)
(* A model of the object pool of src/src/lib.rs: Pool<T> (a Mutex<Vec<T>>  *)
(* plus failure telemetry) shared through Arc handles, the free functions  *)
(* try_pull and pull, and the guard Reusable<T> with detach and Drop.      *)
(*                                                                         *)
(* T is Vec<u8> as in the tests: an instance is a record of a ghost        *)
(* identity (its allocation) and its contents.  Every operation that takes *)
(* the objects mutex is run by a thread in steps (call, lock, read, write   *)
(* and unlock, return); operations that touch no lock (detach,             *)
(* Reusable::new, deref, Arc drop) are single steps.                       *)
(***************************************************************************)
EXTENDS Integers, Sequences, FiniteSets, TLC

\* ---- bounds of the model ----
NumPools == 2       \* pools a caller may build
NumThreads == 2     \* threads sharing the pools
MaxInst == 2        \* instances of T ever constructed
MaxLen == 1         \* longest Vec contents
MaxStrong == 3      \* detach is not called on an Arc whose strong count reached this

Pools == 1 .. NumPools
Threads == 1 .. NumThreads
NoPool == 0         \* Option<Arc<Pool<T>>>::None
NoThread == 0       \* the mutex is free
Elems == {1}        \* bytes pushed by callers
NoVal == [id |-> 0, data |-> << >>]   \* Option<T>::None

VARIABLES
    alive,      \* alive[p]: the Pool allocation behind the Arc still exists
    objects,    \* objects[p]: Pool.objects, the Vec<T> behind the mutex
    lock,       \* lock[p]: the thread holding Pool.objects' mutex, or NoThread
    cnt_fail,   \* cnt_fail[p]: Pool.cnt_fail
    strong,     \* strong[p]: strong count of the Arc<Pool<T>>
    handles,    \* handles[p]: Arc<Pool<T>> values callers hold
    guards,     \* live Reusable<T> values callers hold: [pool, data]
    values,     \* bare T values callers hold (detached or built by them)
    pc,         \* pc[t]: where thread t is in its operation
    frame,      \* frame[t]: the locals of thread t's operation
    nextId,     \* identity of the next T constructed
    cap         \* cap[p]: the capacity Pool::new was called with

vars == << alive, objects, lock, cnt_fail, strong, handles, guards, values,
           pc, frame, nextId, cap >>

NoFrame == [op |-> "none", pool |-> NoPool, val |-> NoVal, n |-> 0,
            b |-> FALSE, fb |-> FALSE, fail0 |-> 0]

\* ---- T = Vec<u8> ----
VecNew(id) == [id |-> id, data |-> << >>]
VecPush(v, x) == [v EXCEPT !.data = Append(@, x)]

\* ---- Stack<T> = Vec<T> ----
\* Vec::push and Vec::pop are plain reads and writes of the length and the
\* slots: they read the length (n), then write.  Only the mutex makes them atomic.
Truncate(s, n) == IF n >= Len(s) THEN s ELSE SubSeq(s, 1, n)
\* A queue: the value goes under the others.
StackPushFront(s, n, v) == << v >> \o Truncate(s, n)
StackPush(s, n, v) == Append(Truncate(s, n), v)
StackTopOldest(s) == IF Len(s) = 0 THEN NoVal ELSE s[1]
StackTop(s) == IF Len(s) = 0 THEN NoVal ELSE s[Len(s)]
StackPop(s, n) == IF n = 0 THEN s ELSE Truncate(s, n - 1)

\* ---- Pool::new: the loop `for _ in 0..cap { objects.push(init()) }` ----
RECURSIVE InitLoop(_, _, _)
InitLoop(n, objs, id) ==
    IF n = 0 THEN [objects |-> objs, next |-> id]
    ELSE InitLoop(n - 1, StackPush(objs, Len(objs), VecNew(id)), id + 1)

\* `for _ in 0..=cap`: one iteration too many.
PoolNewInclusive(capacity, firstId) ==
    LET built == InitLoop(capacity + 1, << >>, firstId)
    IN  [objects |-> built.objects,
         lock |-> NoThread,
         cnt_fail |-> 0,
         inits |-> built.next - firstId]

\* init() hands out the instances firstId, firstId + 1, ...; inits is the
\* number of times it was called.
PoolNew(capacity, firstId) ==
    LET built == InitLoop(capacity, << >>, firstId)
    IN  [objects |-> built.objects,
         lock |-> NoThread,
         cnt_fail |-> 0,
         inits |-> built.next - firstId]

\* Capacities the callers choose for the pools in B, the others staying unbuilt.
RECURSIVE SumTo(_, _)
SumTo(c, p) == IF p = 0 THEN 0 ELSE c[p] + SumTo(c, p - 1)

Capacities(B) ==
    {c \in [Pools -> 0 .. MaxInst] :
        /\ \A p \in Pools \ B : c[p] = 0
        /\ SumTo(c, NumPools) <= MaxInst}

\* The state after the callers built the pools in B, each as
\* Arc::new(Pool::new(name, cap, || Vec::new())): one handle per pool.
InitWith(B) ==
    \E c \in Capacities(B) :
        /\ cap = c
        /\ objects = [p \in Pools |-> PoolNew(c[p], 1 + SumTo(c, p - 1)).objects]
        /\ lock = [p \in Pools |-> PoolNew(c[p], 1 + SumTo(c, p - 1)).lock]
        /\ cnt_fail = [p \in Pools |-> PoolNew(c[p], 1 + SumTo(c, p - 1)).cnt_fail]
        /\ nextId = 1 + SumTo(c, NumPools)
        /\ alive = [p \in Pools |-> p \in B]
        /\ strong = [p \in Pools |-> IF p \in B THEN 1 ELSE 0]
        /\ handles = [p \in Pools |-> IF p \in B THEN 1 ELSE 0]
        /\ guards = {}
        /\ values = {}
        /\ pc = [t \in Threads |-> "idle"]
        /\ frame = [t \in Threads |-> NoFrame]

\* One pool shared by all threads.
Init == InitWith({1})

\* Every pool built.
InitPools == InitWith(Pools)

\* ---- helpers on the state ----
Op(t) == frame[t].op
Borrowers(p) == {t \in Threads : Op(t) \in {"len", "is_empty", "attach"} /\ frame[t].pool = p}
\* threads inside pull that may still call fallback()
PendingFallbacks ==
    {t \in Threads : Op(t) = "pull" /\ pc[t] \in {"wait", "cs", "cs2", "ret", "fb"}}
CanConstruct == nextId + Cardinality(PendingFallbacks) <= MaxInst

\* A caller's handle may be given away only if no &Pool borrow depends on it.
CanGive(p) == handles[p] >= 1 /\ (Borrowers(p) = {} \/ handles[p] >= 2)

\* Arc::clone / Arc::drop on the strong count alone.
ArcInc(s, p, k) == [s EXCEPT ![p] = @ + k]
ArcDec(s, p, k) == [s EXCEPT ![p] = @ - k]

\* Dropping k Arcs of pool p: the last one frees the Pool and its idle instances.
ArcDrop(p, k) ==
    /\ strong' = ArcDec(strong, p, k)
    /\ IF ArcDec(strong, p, k)[p] = 0
       THEN /\ alive' = [alive EXCEPT ![p] = FALSE]
            /\ objects' = [objects EXCEPT ![p] = << >>]
       ELSE UNCHANGED << alive, objects >>

\* Passing an Arc by value: the caller moves its handle or passes handle.clone().
TakeArc(p, mv) ==
    IF mv THEN /\ CanGive(p)
               /\ handles' = [handles EXCEPT ![p] = @ - 1]
               /\ UNCHANGED strong
          ELSE /\ handles[p] >= 1
               /\ strong' = ArcInc(strong, p, 1)
               /\ UNCHANGED handles

\* ---- parking_lot Mutex::lock on Pool.objects ----
LockNoExclusion(t) ==
    /\ pc[t] = "wait"
    /\ lock' = [lock EXCEPT ![frame[t].pool] = t]
    /\ pc' = [pc EXCEPT ![t] = "cs"]
    /\ UNCHANGED << alive, objects, cnt_fail, strong, handles, guards, values,
                    frame, nextId, cap >>

Lock(t) ==
    /\ pc[t] = "wait"
    /\ lock[frame[t].pool] = NoThread
    /\ lock' = [lock EXCEPT ![frame[t].pool] = t]
    /\ pc' = [pc EXCEPT ![t] = "cs"]
    /\ UNCHANGED << alive, objects, cnt_fail, strong, handles, guards, values,
                    frame, nextId, cap >>

\* The MutexGuard kept alive instead of dropped at the end of the statement.
UnlockNever(l, p) == l
Unlock(l, p) == [l EXCEPT ![p] = NoThread]

\* ---- Pool::len ----
LenCall(t, p) ==
    /\ pc[t] = "idle"
    /\ handles[p] >= 1
    /\ frame' = [frame EXCEPT ![t] = [NoFrame EXCEPT !.op = "len", !.pool = p]]
    /\ pc' = [pc EXCEPT ![t] = "wait"]
    /\ UNCHANGED << alive, objects, lock, cnt_fail, strong, handles, guards,
                    values, nextId, cap >>

LenBody(t) ==
    /\ pc[t] = "cs" /\ Op(t) = "len"
    /\ frame' = [frame EXCEPT ![t].n = Len(objects[frame[t].pool])]
    /\ lock' = Unlock(lock, frame[t].pool)
    /\ pc' = [pc EXCEPT ![t] = "ret"]
    /\ UNCHANGED << alive, objects, cnt_fail, strong, handles, guards, values,
                    nextId, cap >>

\* ---- Pool::is_empty ----
IsEmptyCall(t, p) ==
    /\ pc[t] = "idle"
    /\ handles[p] >= 1
    /\ frame' = [frame EXCEPT ![t] = [NoFrame EXCEPT !.op = "is_empty", !.pool = p]]
    /\ pc' = [pc EXCEPT ![t] = "wait"]
    /\ UNCHANGED << alive, objects, lock, cnt_fail, strong, handles, guards,
                    values, nextId, cap >>

IsEmptyBody(t) ==
    /\ pc[t] = "cs" /\ Op(t) = "is_empty"
    /\ frame' = [frame EXCEPT ![t].b = (Len(objects[frame[t].pool]) = 0)]
    /\ lock' = Unlock(lock, frame[t].pool)
    /\ pc' = [pc EXCEPT ![t] = "ret"]
    /\ UNCHANGED << alive, objects, cnt_fail, strong, handles, guards, values,
                    nextId, cap >>

\* len, is_empty and attach return to a caller that only lent its handle.
BorrowReturn(t) ==
    /\ pc[t] = "ret" /\ Op(t) \in {"len", "is_empty", "attach"}
    /\ pc' = [pc EXCEPT ![t] = "idle"]
    /\ frame' = [frame EXCEPT ![t] = NoFrame]
    /\ UNCHANGED << alive, objects, lock, cnt_fail, strong, handles, guards,
                    values, nextId, cap >>

\* ---- Pool::attach ----
AttachCall(t, p, v) ==
    /\ pc[t] = "idle"
    /\ handles[p] >= 1
    /\ v \in values
    /\ values' = values \ {v}
    /\ frame' = [frame EXCEPT ![t] = [NoFrame EXCEPT !.op = "attach", !.pool = p, !.val = v]]
    /\ pc' = [pc EXCEPT ![t] = "wait"]
    /\ UNCHANGED << alive, objects, lock, cnt_fail, strong, handles, guards,
                    nextId, cap >>

\* self.objects.lock().push(t), reached from attach and from Drop for Reusable:
\* the length is read, then the slot and the new length are written.
PushRead(t) ==
    /\ pc[t] = "cs" /\ Op(t) \in {"attach", "drop"}
    /\ frame' = [frame EXCEPT ![t].n = Len(objects[frame[t].pool])]
    /\ pc' = [pc EXCEPT ![t] = "cs2"]
    /\ UNCHANGED << alive, objects, lock, cnt_fail, strong, handles, guards,
                    values, nextId, cap >>

AttachPushLoses(objs, p, n, v) == objs
\* A pool that refuses what exceeds its initial capacity.
AttachPushCapped(objs, p, n, v) ==
    IF n >= cap[p] THEN objs ELSE [objs EXCEPT ![p] = StackPush(@, n, v)]
AttachPushResets(objs, p, n, v) == [objs EXCEPT ![p] = StackPush(@, n, VecNew(v.id))]
AttachPushFirstPool(objs, p, n, v) == [objs EXCEPT ![1] = StackPush(@, n, v)]
AttachPush(objs, p, n, v) == [objs EXCEPT ![p] = StackPush(@, n, v)]

PushWrite(t) ==
    /\ pc[t] = "cs2" /\ Op(t) \in {"attach", "drop"}
    /\ objects' = AttachPush(objects, frame[t].pool, frame[t].n, frame[t].val)
    /\ lock' = Unlock(lock, frame[t].pool)
    /\ pc' = [pc EXCEPT ![t] = "ret"]
    /\ UNCHANGED << alive, cnt_fail, strong, handles, guards, values, frame,
                    nextId, cap >>

\* ---- try_pull ----
TryPullCall(t, p, mv) ==
    /\ pc[t] = "idle"
    /\ TakeArc(p, mv)
    /\ frame' = [frame EXCEPT ![t] = [NoFrame EXCEPT !.op = "try_pull", !.pool = p]]
    /\ pc' = [pc EXCEPT ![t] = "wait"]
    /\ UNCHANGED << alive, objects, lock, cnt_fail, guards, values, nextId, cap >>

\* pool.objects.lock().pop().map(|data| Reusable::new(Some(pool.clone()), data)):
\* pop reads the length and the top slot (NoVal for None), then writes the length;
\* map clones the Arc for the guard when a value was popped.
\* A pool that grows by itself: an empty pop constructs an instance.
PopResultGrows(objs, p) == IF Len(objs[p]) = 0 THEN VecNew(nextId) ELSE StackTop(objs[p])
PopResult(objs, p) == StackTop(objs[p])
PopRestKeeps(objs, p, n) == objs
PopRest(objs, p, n) == [objs EXCEPT ![p] = StackPop(@, n)]
PopClones(v) == IF v = NoVal THEN 0 ELSE 1

PopRead(t) ==
    /\ pc[t] = "cs" /\ Op(t) \in {"try_pull", "pull"}
    /\ frame' = [frame EXCEPT ![t].n = Len(objects[frame[t].pool]),
                              ![t].val = PopResult(objects, frame[t].pool)]
    /\ pc' = [pc EXCEPT ![t] = "cs2"]
    /\ UNCHANGED << alive, objects, lock, cnt_fail, strong, handles, guards,
                    values, nextId, cap >>

PopWrite(t) ==
    /\ pc[t] = "cs2" /\ Op(t) \in {"try_pull", "pull"}
    /\ objects' = PopRest(objects, frame[t].pool, frame[t].n)
    /\ strong' = ArcInc(strong, frame[t].pool, PopClones(frame[t].val))
    /\ lock' = Unlock(lock, frame[t].pool)
    /\ pc' = [pc EXCEPT ![t] = "ret"]
    /\ UNCHANGED << alive, cnt_fail, handles, guards, values, frame, nextId, cap >>

\* The Option<Reusable<T>> a frame is about to hand to its caller.
Delivered(f) == IF f.val = NoVal THEN {} ELSE {[pool |-> f.pool, data |-> f.val]}

TryPullReturn(t) ==
    /\ pc[t] = "ret" /\ Op(t) = "try_pull"
    /\ ArcDrop(frame[t].pool, 1)
    /\ guards' = guards \cup Delivered(frame[t])
    /\ pc' = [pc EXCEPT ![t] = "idle"]
    /\ frame' = [frame EXCEPT ![t] = NoFrame]
    /\ UNCHANGED << lock, cnt_fail, handles, values, nextId, cap >>

\* ---- pull ----
\* pull(pool, fallback) starts by calling try_pull(pool.clone()).
PullCall(t, p, mv) ==
    /\ pc[t] = "idle"
    /\ CanConstruct
    /\ IF mv THEN /\ CanGive(p)
                  /\ handles' = [handles EXCEPT ![p] = @ - 1]
                  /\ strong' = ArcInc(strong, p, 1)
             ELSE /\ handles[p] >= 1
                  /\ strong' = ArcInc(strong, p, 2)
                  /\ UNCHANGED handles
    /\ frame' = [frame EXCEPT ![t] = [NoFrame EXCEPT !.op = "pull", !.pool = p,
                                                     !.fail0 = cnt_fail[p]]]
    /\ pc' = [pc EXCEPT ![t] = "wait"]
    /\ UNCHANGED << alive, objects, lock, cnt_fail, guards, values, nextId, cap >>

\* The inner try_pull returns (its Arc parameter is dropped); unwrap_or_else
\* keeps a Some and otherwise enters the closure.
UnwrapOrElseNothing(v) == "done"
UnwrapOrElse(v) == IF v = NoVal THEN "fb" ELSE "done"

PullTryReturn(t) ==
    /\ pc[t] = "ret" /\ Op(t) = "pull"
    /\ strong' = ArcDec(strong, frame[t].pool, 1)
    /\ pc' = [pc EXCEPT ![t] = UnwrapOrElse(frame[t].val)]
    /\ UNCHANGED << alive, objects, lock, cnt_fail, handles, guards, values,
                    frame, nextId, cap >>

\* || Reusable::new(Some(pool.clone()), fallback()); no counter is touched.
PullFallback(t) ==
    /\ pc[t] = "fb"
    /\ strong' = ArcInc(strong, frame[t].pool, 1)
    /\ frame' = [frame EXCEPT ![t].val = VecNew(nextId), ![t].fb = TRUE]
    /\ nextId' = nextId + 1
    /\ pc' = [pc EXCEPT ![t] = "done"]
    /\ UNCHANGED << alive, objects, lock, cnt_fail, handles, guards, values, cap >>

PullReturn(t) ==
    /\ pc[t] = "done" /\ Op(t) = "pull"
    /\ ArcDrop(frame[t].pool, 1)
    /\ guards' = guards \cup Delivered(frame[t])
    /\ pc' = [pc EXCEPT ![t] = "idle"]
    /\ frame' = [frame EXCEPT ![t] = NoFrame]
    /\ UNCHANGED << lock, cnt_fail, handles, values, nextId, cap >>

\* ---- Reusable::new ----
\* Called by a caller with a value it holds and None or an Arc it gives.
ReusableNew(po, v, mv) ==
    /\ v \in values
    /\ values' = values \ {v}
    /\ guards' = guards \cup {[pool |-> po, data |-> v]}
    /\ IF po = NoPool THEN UNCHANGED << strong, handles >> ELSE TakeArc(po, mv)
    /\ UNCHANGED << alive, objects, lock, cnt_fail, pc, frame, nextId, cap >>

\* ---- Reusable::detach ----
\* let pool = self.pool.clone(); (pool, self.take()); forget(self):
\* the clone adds a strong count and forget(self) never drops self.pool.
DetachStrong(s, po) == IF po = NoPool THEN s ELSE ArcInc(s, po, 1)
DetachAlsoReturns(objs, g) ==
    IF g.pool = NoPool THEN objs ELSE [objs EXCEPT ![g.pool] = Append(@, g.data)]
DetachObjects(objs, g) == objs

Detach(g) ==
    /\ g \in guards
    /\ g.pool # NoPool => strong[g.pool] < MaxStrong
    /\ guards' = guards \ {g}
    /\ values' = values \cup {g.data}
    /\ strong' = DetachStrong(strong, g.pool)
    /\ handles' = IF g.pool = NoPool THEN handles ELSE [handles EXCEPT ![g.pool] = @ + 1]
    /\ objects' = DetachObjects(objects, g)
    /\ UNCHANGED << alive, lock, cnt_fail, pc, frame, nextId, cap >>

\* ---- DerefMut: the caller pushes a byte into the guarded Vec ----
DerefMutPush(g, x) ==
    /\ g \in guards
    /\ Len(g.data.data) < MaxLen
    /\ guards' = (guards \ {g}) \cup {[g EXCEPT !.data = VecPush(@, x)]}
    /\ UNCHANGED << alive, objects, lock, cnt_fail, strong, handles, values,
                    pc, frame, nextId, cap >>

\* ---- Drop for Reusable ----
\* pool = None: ManuallyDrop::drop(&mut self.data), no pool is touched.
DropUnpooled(g) ==
    /\ g \in guards
    /\ g.pool = NoPool
    /\ guards' = guards \ {g}
    /\ UNCHANGED << alive, objects, lock, cnt_fail, strong, handles, values,
                    pc, frame, nextId, cap >>

\* pool = Some(p): let pool = p.clone(); pool.attach(self.take())
DropCall(t, g) ==
    /\ pc[t] = "idle"
    /\ g \in guards
    /\ g.pool # NoPool
    /\ guards' = guards \ {g}
    /\ strong' = ArcInc(strong, g.pool, 1)
    /\ frame' = [frame EXCEPT ![t] = [NoFrame EXCEPT !.op = "drop", !.pool = g.pool,
                                                     !.val = g.data]]
    /\ pc' = [pc EXCEPT ![t] = "wait"]
    /\ UNCHANGED << alive, objects, lock, cnt_fail, handles, values, nextId, cap >>

\* attach returned: the local clone goes, then the field self.pool.
DropReturn(t) ==
    /\ pc[t] = "ret" /\ Op(t) = "drop"
    /\ ArcDrop(frame[t].pool, 2)
    /\ pc' = [pc EXCEPT ![t] = "idle"]
    /\ frame' = [frame EXCEPT ![t] = NoFrame]
    /\ UNCHANGED << lock, cnt_fail, handles, guards, values, nextId, cap >>

\* ---- what callers do with what they hold ----
\* A caller builds a T of its own (Vec::new()).
MakeValue ==
    /\ CanConstruct
    /\ values' = values \cup {VecNew(nextId)}
    /\ nextId' = nextId + 1
    /\ UNCHANGED << alive, objects, lock, cnt_fail, strong, handles, guards,
                    pc, frame, cap >>

\* A caller pushes a byte into a Vec it holds.
MutateValue(v, x) ==
    /\ v \in values
    /\ Len(v.data) < MaxLen
    /\ values' = (values \ {v}) \cup {VecPush(v, x)}
    /\ UNCHANGED << alive, objects, lock, cnt_fail, strong, handles, guards,
                    pc, frame, nextId, cap >>

\* A caller drops a T it holds.
DropValue(v) ==
    /\ v \in values
    /\ values' = values \ {v}
    /\ UNCHANGED << alive, objects, lock, cnt_fail, strong, handles, guards,
                    pc, frame, nextId, cap >>

\* A caller drops an Arc<Pool<T>> it holds.
DropHandle(p) ==
    /\ CanGive(p)
    /\ handles' = [handles EXCEPT ![p] = @ - 1]
    /\ ArcDrop(p, 1)
    /\ UNCHANGED << lock, cnt_fail, guards, values, pc, frame, nextId, cap >>

\* The steps of thread t.
ThreadStep(t) ==
    \/ Lock(t)
    \/ \E p \in Pools : LenCall(t, p)
    \/ LenBody(t)
    \/ \E p \in Pools : IsEmptyCall(t, p)
    \/ IsEmptyBody(t)
    \/ BorrowReturn(t)
    \/ \E p \in Pools, v \in values : AttachCall(t, p, v)
    \/ PushRead(t)
    \/ PushWrite(t)
    \/ \E p \in Pools, mv \in BOOLEAN : TryPullCall(t, p, mv)
    \/ PopRead(t)
    \/ PopWrite(t)
    \/ TryPullReturn(t)
    \/ \E p \in Pools, mv \in BOOLEAN : PullCall(t, p, mv)
    \/ PullTryReturn(t)
    \/ PullFallback(t)
    \/ PullReturn(t)
    \/ \E g \in guards : DropCall(t, g)
    \/ DropReturn(t)

\* The steps that take no lock, whichever thread makes them.
CallerStep ==
    \/ \E po \in Pools \cup {NoPool}, v \in values, mv \in BOOLEAN : ReusableNew(po, v, mv)
    \/ \E g \in guards : Detach(g)
    \/ \E g \in guards, x \in Elems : DerefMutPush(g, x)
    \/ \E g \in guards : DropUnpooled(g)
    \/ MakeValue
    \/ \E v \in values, x \in Elems : MutateValue(v, x)
    \/ \E v \in values : DropValue(v)
    \/ \E p \in Pools : DropHandle(p)

Next == (\E t \in Threads : ThreadStep(t)) \/ CallerStep

Spec == Init /\ [][Next]_vars

\* Several pools used from one thread.
NextPools == ThreadStep(1) \/ CallerStep

SpecPools == InitPools /\ [][NextPools]_vars

\* Concurrent try_pull calls and nothing else: each thread calls try_pull once,
\* on any pool, and stays where the call has its Option to return.
NextTryPull ==
    \E t \in Threads :
        \/ \E p \in Pools : TryPullCall(t, p, FALSE)
        \/ Lock(t)
        \/ PopRead(t)
        \/ PopWrite(t)

SpecTryPull == InitPools /\ [][NextTryPull]_vars

\* One thread borrowing from and returning to its pool, and nothing else:
\* try_pull, use of the guard, drop of the guard, len.
NextLoan ==
    \/ \E p \in Pools : TryPullCall(1, p, FALSE)
    \/ Lock(1)
    \/ PopRead(1)
    \/ PopWrite(1)
    \/ TryPullReturn(1)
    \/ \E g \in guards, x \in Elems : DerefMutPush(g, x)
    \/ \E g \in guards : DropCall(1, g)
    \/ PushRead(1)
    \/ PushWrite(1)
    \/ DropReturn(1)
    \/ \E p \in Pools : LenCall(1, p)
    \/ LenBody(1)
    \/ BorrowReturn(1)

SpecLoan == Init /\ [][NextLoan]_vars

\* The round trip of the test detach_then_attach: thread 1 borrows a guard,
\* the guard is detached, the caller may change the value or take another,
\* thread 2 attaches a value and, with that call finished, thread 1 calls
\* try_pull again.
NextRoundTrip ==
    \/ /\ \/ pc[2] = "idle" /\ guards = {} /\ values = {}
          \/ pc[2] = "ret"
       /\ \E p \in Pools : TryPullCall(1, p, FALSE)
    \/ Lock(1)
    \/ PopRead(1)
    \/ PopWrite(1)
    \/ pc[2] = "idle" /\ TryPullReturn(1)
    \/ \E g \in guards, x \in Elems : DerefMutPush(g, x)
    \/ \E g \in guards : Detach(g)
    \/ \E v \in values, x \in Elems : MutateValue(v, x)
    \/ MakeValue
    \/ pc[1] = "idle" /\ \E p \in Pools, v \in values : AttachCall(2, p, v)
    \/ Lock(2)
    \/ PushRead(2)
    \/ PushWrite(2)

SpecRoundTrip == Init /\ [][NextRoundTrip]_vars

\* Threads borrowing with try_pull and pull and dropping their guards, and
\* nothing else: no detach, no attach, no value of the callers' own.
NextPull ==
    \/ \E t \in Threads :
          \/ \E p \in Pools : TryPullCall(t, p, FALSE)
          \/ \E p \in Pools : PullCall(t, p, FALSE)
          \/ Lock(t)
          \/ PopRead(t)
          \/ PopWrite(t)
          \/ TryPullReturn(t)
          \/ PullTryReturn(t)
          \/ PullFallback(t)
          \/ PullReturn(t)
          \/ \E g \in guards : DropCall(t, g)
          \/ PushRead(t)
          \/ PushWrite(t)
          \/ DropReturn(t)
          \/ \E p \in Pools : LenCall(t, p)
          \/ LenBody(t)
          \/ BorrowReturn(t)

SpecPull == Init /\ [][NextPull]_vars

\* The test detach: thread 1 borrows a guard, the guard is detached, the
\* caller changes the value and wraps it with Reusable::new and a handle of the
\* pool, thread 2 drops a guard and, with that drop finished, thread 1 calls
\* try_pull again.
NextRewrap ==
    \/ /\ \/ pc[2] = "idle" /\ guards = {} /\ values = {}
          \/ pc[2] = "ret"
       /\ \E p \in Pools : TryPullCall(1, p, FALSE)
    \/ Lock(1)
    \/ PopRead(1)
    \/ PopWrite(1)
    \/ pc[2] = "idle" /\ TryPullReturn(1)
    \/ \E g \in guards : Detach(g)
    \/ \E v \in values, x \in Elems : MutateValue(v, x)
    \/ \E po \in Pools, v \in values, mv \in BOOLEAN : ReusableNew(po, v, mv)
    \/ pc[1] = "idle" /\ \E g \in guards : DropCall(2, g)
    \/ Lock(2)
    \/ PushRead(2)
    \/ PushWrite(2)

SpecRewrap == Init /\ [][NextRewrap]_vars

\* Pools just built, the threads only asking len() and is_empty().
NextNew ==
    \E t \in Threads :
        \/ \E p \in Pools : LenCall(t, p)
        \/ \E p \in Pools : IsEmptyCall(t, p)
        \/ Lock(t)
        \/ LenBody(t)
        \/ IsEmptyBody(t)
        \/ BorrowReturn(t)

SpecNew == InitPools /\ [][NextNew]_vars

\* The operations on idle storage by all threads at once: try_pull, attach,
\* the drop of a guard, len and is_empty, with the callers detaching guards
\* and making values of their own to attach.
NextStorage ==
    \/ \E t \in Threads :
          \/ \E p \in Pools : TryPullCall(t, p, FALSE)
          \/ \E p \in Pools, v \in values : AttachCall(t, p, v)
          \/ \E g \in guards : DropCall(t, g)
          \/ \E p \in Pools : LenCall(t, p)
          \/ \E p \in Pools : IsEmptyCall(t, p)
          \/ Lock(t)
          \/ PopRead(t)
          \/ PopWrite(t)
          \/ PushRead(t)
          \/ PushWrite(t)
          \/ LenBody(t)
          \/ IsEmptyBody(t)
          \/ TryPullReturn(t)
          \/ DropReturn(t)
          \/ BorrowReturn(t)
    \/ \E g \in guards : Detach(g)
    \/ MakeValue

SpecStorage == Init /\ [][NextStorage]_vars

\* Every operation that takes the lock, by all threads, under fair scheduling.
NextFair ==
    \/ \E t \in Threads :
          \/ \E p \in Pools : TryPullCall(t, p, FALSE)
          \/ \E p \in Pools : PullCall(t, p, FALSE)
          \/ \E p \in Pools, v \in values : AttachCall(t, p, v)
          \/ \E g \in guards : DropCall(t, g)
          \/ \E p \in Pools : LenCall(t, p)
          \/ \E p \in Pools : IsEmptyCall(t, p)
          \/ Lock(t)
          \/ PopRead(t)
          \/ PopWrite(t)
          \/ PushRead(t)
          \/ PushWrite(t)
          \/ LenBody(t)
          \/ IsEmptyBody(t)
          \/ TryPullReturn(t)
          \/ PullTryReturn(t)
          \/ PullFallback(t)
          \/ PullReturn(t)
          \/ DropReturn(t)
          \/ BorrowReturn(t)
    \/ \E g \in guards : Detach(g)

\* What thread t does by itself once inside an operation: every step but the
\* call (the caller's choice) and the taking of the lock.
Run(t) ==
    \/ PopRead(t) \/ PopWrite(t) \/ PushRead(t) \/ PushWrite(t)
    \/ LenBody(t) \/ IsEmptyBody(t)
    \/ TryPullReturn(t) \/ PullTryReturn(t) \/ PullFallback(t) \/ PullReturn(t)
    \/ DropReturn(t) \/ BorrowReturn(t)

\* A thread inside an operation keeps being scheduled, and fallback()
\* terminates (weak fairness of its steps); parking_lot's Mutex is eventually
\* fair, handing the lock to a waiting thread by a forced fair unlock, so a
\* thread that finds the lock free again and again does get it (strong
\* fairness of Lock).
Fairness == \A t \in Threads : WF_vars(Run(t)) /\ SF_vars(Lock(t))

SpecFair == Init /\ [][NextFair]_vars /\ Fairness

\* ======================= properties =======================

\* Where instances are.
Ids == 1 .. (nextId - 1)
IdleAt(p, id) == {i \in DOMAIN objects[p] : objects[p][i].id = id}
GuardsOf(id) == {g \in guards : g.data.id = id}
ValuesOf(id) == {v \in values : v.id = id}
\* A frame owns its value from the call of attach or drop until the push has
\* moved it into storage (the frame keeps the moved-from bytes), and from the
\* moment a pop has written the new length until the guard is returned;
\* before that write the slot a pop has read is still the storage's.
Popping(t) == pc[t] = "cs2" /\ Op(t) \in {"try_pull", "pull"}
Pushed(t) == pc[t] = "ret" /\ Op(t) \in {"attach", "drop"}
FramesOf(id) == {t \in Threads : frame[t].val.id = id /\ ~Popping(t) /\ ~Pushed(t)}
SumIdle(id) ==
    LET F[p \in 0 .. NumPools] ==
            IF p = 0 THEN 0 ELSE Cardinality(IdleAt(p, id)) + F[p - 1]
    IN F[NumPools]
Holders(id) ==
    SumIdle(id) + Cardinality(GuardsOf(id)) + Cardinality(ValuesOf(id))
        + Cardinality(FramesOf(id))

\* C1: every instance ever constructed is in at most one place (one slot of
\* one pool's idle storage, one guard, one caller's hands, one operation in
\* flight), and nothing that was never constructed is held anywhere.
C1_SingleOwner ==
    /\ \A id \in Ids : Holders(id) <= 1
    /\ \A p \in Pools : \A i \in DOMAIN objects[p] : objects[p][i].id \in Ids
    /\ \A g \in guards : g.data.id \in Ids
    /\ \A v \in values : v.id \in Ids
    /\ \A t \in Threads : frame[t].val.id \in Ids \cup {0}

\* C1 witness: of a pool built with two instances one is in a guard and the
\* other, detached, in a caller's hands, and idle storage is empty.
C1_Witness ==
    /\ \E g \in guards : g.pool = 1 /\ g.data.id <= cap[1]
    /\ \E v \in values : v.id <= cap[1]
    /\ objects[1] = << >>
    /\ cap[1] = 2

\* try_pull calls of pool p, and those among them that have a Some to return
CallersOf(p) == {t \in Threads : Op(t) = "try_pull" /\ frame[t].pool = p}
Winners(p) == {t \in CallersOf(p) : pc[t] = "ret" /\ frame[t].val # NoVal}
Losers(p) == {t \in CallersOf(p) : pc[t] = "ret" /\ frame[t].val = NoVal}

\* C2: when N threads have each called try_pull on a pool that held K idle
\* instances and all have their result, K of the calls return a guard and N-K
\* return None if K < N (all N return a guard otherwise), and no two guards
\* wrap the same instance.
C2_ConcurrentTryPull ==
    (\A t \in Threads : pc[t] = "ret") =>
        \A p \in Pools :
            LET N == Cardinality(CallersOf(p))
                K == cap[p]
            IN /\ K < N => Cardinality(Winners(p)) = K /\ Cardinality(Losers(p)) = N - K
               /\ K >= N => Cardinality(Winners(p)) = N
               /\ \A t1, t2 \in Winners(p) :
                      t1 # t2 => frame[t1].val.id # frame[t2].val.id

\* C2 witness: two calls raced for the single idle instance of a pool; one has
\* the guard and the other None.
C2_Witness ==
    /\ \A t \in Threads : pc[t] = "ret"
    /\ \E p \in Pools :
          /\ cap[p] = 1
          /\ Cardinality(CallersOf(p)) = 2
          /\ Cardinality(Winners(p)) = 1
          /\ Cardinality(Losers(p)) = 1

\* What a finished call is about to return.
Returning(t, op) == pc[t] = "ret" /\ Op(t) = op

\* C3 (as amended): with only try_pull, guard drops and len on a pool of
\* capacity C, a try_pull made while k guards are out returns a guard if
\* k < C and None if k = C, and len() returns C - k: so the first C calls
\* succeed, the next returns None, and once all guards are dropped len() is C
\* and try_pull succeeds again provided C >= 1.
C3_Loan ==
    \A t \in Threads :
        LET p == frame[t].pool
            k == Cardinality(guards)
        IN /\ Returning(t, "try_pull") => k <= cap[p] /\ (frame[t].val # NoVal <=> k < cap[p])
           /\ Returning(t, "len") => frame[t].n = cap[p] - k

\* C3 witness: both guards of a pool of capacity 2 were used and dropped, and
\* len() returns 2.
C3_Witness ==
    /\ cap[1] = 2
    /\ guards = {}
    /\ Returning(1, "len") /\ frame[1].n = 2
    /\ \A i \in DOMAIN objects[1] : objects[1][i].data # << >>

\* C3 as stated: whatever the capacity, the (C+1)-th try_pull returns None and
\* the try_pull made once all guards are dropped succeeds.
C3_Original ==
    \A t \in Threads :
        Returning(t, "try_pull") =>
            /\ Cardinality(guards) = cap[frame[t].pool] => frame[t].val = NoVal
            /\ guards = {} => frame[t].val # NoVal

\* C4: a pull that has built its guard from fallback() finds the pool's
\* cnt_fail greater than it was when pull was called.
C4_FailureCounted ==
    \A t \in Threads :
        (pc[t] = "done" /\ Op(t) = "pull" /\ frame[t].fb) =>
            cnt_fail[frame[t].pool] > frame[t].fail0

\* The Arc<Pool<T>> values an operation in flight holds: the parameter of
\* try_pull and pull, the parameter of the try_pull that pull calls, the clone
\* made for the guard being returned, and the field and the local clone of a
\* guard being dropped.
FrameArcs(t) ==
    CASE Op(t) = "try_pull" ->
            1 + (IF pc[t] = "ret" /\ frame[t].val # NoVal THEN 1 ELSE 0)
      [] Op(t) = "pull" ->
            1 + (IF pc[t] \in {"wait", "cs", "cs2", "ret"} THEN 1 ELSE 0)
              + (IF pc[t] \in {"ret", "done"} /\ frame[t].val # NoVal THEN 1 ELSE 0)
      [] Op(t) = "drop" -> 2
      [] OTHER -> 0

Owners(p) ==
    LET F[t \in 0 .. NumThreads] ==
            IF t = 0 THEN 0
            ELSE (IF frame[t].pool = p THEN FrameArcs(t) ELSE 0) + F[t - 1]
    IN handles[p] + Cardinality({g \in guards : g.pool = p}) + F[NumThreads]

\* C5: the strong count of a pool's Arc is the number of handles held (by
\* callers, by guards, by operations in flight), and the pool exists exactly
\* while that number is not zero.
C5_OwnersAreHandles ==
    \A p \in Pools : strong[p] = Owners(p) /\ (alive[p] <=> Owners(p) > 0)

\* C6: a detach step leaves every pool's idle storage as it was, takes the
\* guard away and hands its value (and, if it had a pool, one more handle of
\* that pool) to the caller; and a value in a caller's hands is in no pool's
\* idle storage and leaves those hands only when the caller attaches it,
\* wraps it with Reusable::new or drops it.
C6_DetachDisposesOnce ==
    [][ /\ \A g \in guards :
              Detach(g) =>
                  /\ objects' = objects
                  /\ g \notin guards'
                  /\ g.data \in values'
                  /\ g.pool # NoPool => handles'[g.pool] = handles[g.pool] + 1
        /\ \A v \in values' : \A p \in Pools : \A i \in DOMAIN objects'[p] :
              objects'[p][i].id # v.id
        /\ \A v \in values :
              (\A w \in values' : w.id # v.id) =>
                  \/ \E t \in Threads, p \in Pools : AttachCall(t, p, v)
                  \/ \E po \in Pools \cup {NoPool}, mv \in BOOLEAN : ReusableNew(po, v, mv)
                  \/ DropValue(v)
      ]_vars

\* C6 witness: an instance the pool was built with is in a caller's hands,
\* detached, and the pool's storage is one short.
C6_Witness ==
    /\ \E v \in values : v.id <= cap[1]
    /\ guards = {}
    /\ \A t \in Threads : pc[t] = "idle"
    /\ Len(objects[1]) = cap[1] - 1

\* C7: dropping a guard whose pool is Some(p) carries exactly its value to p
\* and pushes it there: p's idle storage grows by that one value on top, no
\* other pool's storage and no counter changes; dropping a guard whose pool
\* is None changes no pool's storage, counters or handles.
C7_DropReturnsToPoolRef ==
    [][ /\ \A t \in Threads : \A g \in guards :
              DropCall(t, g) =>
                  /\ frame'[t].pool = g.pool /\ frame'[t].val = g.data
                  /\ objects' = objects /\ cnt_fail' = cnt_fail
        /\ \A t \in Threads :
              (Op(t) = "drop" /\ pc[t] \in {"wait", "cs"}) =>
                  /\ frame'[t].pool = frame[t].pool /\ frame'[t].val = frame[t].val
                  /\ objects'[frame[t].pool] = objects[frame[t].pool]
        /\ \A t \in Threads :
              (Op(t) = "drop" /\ PushWrite(t)) =>
                  /\ objects'[frame[t].pool] = Append(objects[frame[t].pool], frame[t].val)
                  /\ \A q \in Pools \ {frame[t].pool} : objects'[q] = objects[q]
                  /\ cnt_fail' = cnt_fail
        /\ \A g \in guards :
              DropUnpooled(g) =>
                  /\ g \notin guards'
                  /\ objects' = objects /\ cnt_fail' = cnt_fail
                  /\ strong' = strong /\ handles' = handles
      ]_vars

\* C7 witness: the drop of a guard has just pushed onto pool 2 an instance
\* that pool 1 was built with.
C7_Witness ==
    /\ Returning(1, "drop") /\ frame[1].pool = 2
    /\ StackTop(objects[2]).id \in 1 .. cap[1]
    /\ Len(objects[2]) = cap[2] + 1

\* C8: when attach(v') on the pool a detach came from has finished, the
\* pool's len() is one more than attach found it, and the try_pull called
\* next returns a guard of exactly v', contents included.
C8_DetachAttachRoundTrip ==
    /\ Returning(2, "attach") /\ pc[1] = "idle" =>
          Len(objects[frame[2].pool]) = frame[2].n + 1
    /\ Returning(2, "attach") /\ Returning(1, "try_pull") =>
          /\ frame[1].val = frame[2].val
          /\ Delivered(frame[1]) = {[pool |-> frame[2].pool, data |-> frame[2].val]}
          /\ Len(objects[frame[2].pool]) = frame[2].n

\* C8 witness: the value was pushed into between detach and attach, another
\* instance stayed idle below it, and the next try_pull has that very value.
C8_Witness ==
    /\ Returning(2, "attach") /\ Returning(1, "try_pull")
    /\ frame[1].val.data # << >>
    /\ frame[1].val.id <= cap[1]
    /\ Len(objects[1]) = 1

\* C9: pull returns a guard of a value, never nothing: the value is the top
\* of idle storage when storage was not empty and a fresh fallback() value
\* when it was, and the guard's pool is the pool pull was given.
C9_PullAlwaysYields ==
    [][ \A t \in Threads :
          /\ (Op(t) = "pull" /\ PopRead(t)) =>
                frame'[t].val = StackTop(objects[frame[t].pool])
          /\ PullTryReturn(t) =>
                (pc'[t] = "fb" <=> frame[t].n = 0) /\ (pc'[t] = "done" <=> frame[t].n > 0)
          /\ PullFallback(t) =>
                /\ frame'[t].val = VecNew(nextId) /\ Holders(nextId) = 0
                /\ frame'[t].pool = frame[t].pool
          /\ PullReturn(t) =>
                /\ frame[t].val # NoVal
                /\ frame[t].fb <=> frame[t].n = 0
                /\ [pool |-> frame[t].pool, data |-> frame[t].val] \notin guards
                /\ guards' = guards \cup {[pool |-> frame[t].pool, data |-> frame[t].val]}
      ]_vars

\* C9 witness: pull on a pool built empty has its guard, made by fallback().
C9_Witness ==
    \E t \in Threads :
        /\ pc[t] = "done" /\ Op(t) = "pull" /\ frame[t].fb
        /\ frame[t].pool = 1 /\ cap[1] = 0 /\ frame[t].val.id = 1

\* Instances constructed since the pools were built; with no value of the
\* callers' own these are the fallback() values of pull.
Fallbacks == (nextId - 1) - SumTo(cap, NumPools)
Quiet == guards = {} /\ \A t \in Threads : pc[t] = "idle" \/ Op(t) = "len"

\* C10: with try_pull, pull and guard drops only, idle storage, guards and
\* operations in flight together hold the initial capacity plus one instance
\* per fallback; so once every guard is dropped the length len() reads is the
\* capacity plus the number of pulls that fell back, and no len() returns more.
C10_FallbacksGrowThePool ==
    /\ Len(objects[1]) + Cardinality(guards)
          + Cardinality({t \in Threads : frame[t].val # NoVal /\ ~Popping(t) /\ ~Pushed(t)})
       = cap[1] + Fallbacks
    /\ Quiet => Len(objects[1]) = cap[1] + Fallbacks
    /\ \A t \in Threads : Returning(t, "len") => frame[t].n <= cap[1] + Fallbacks

\* C10 witness: capacity 1, one fallback, every guard dropped, len() returns 2.
C10_Witness ==
    /\ cap[1] = 1 /\ Fallbacks = 1 /\ Quiet
    /\ \E t \in Threads : Returning(t, "len") /\ frame[t].n = 2

\* C11: when the drop of a guard has finished, the try_pull called next on
\* the guard's pool returns a guard of exactly the value the dropped guard
\* held, with the contents the caller gave it after detach; the drop put it
\* back on top of that pool's storage.
C11_RewrapReturnsMutated ==
    /\ Returning(2, "drop") /\ pc[1] = "idle" =>
          /\ StackTop(objects[frame[2].pool]) = frame[2].val
          /\ Len(objects[frame[2].pool]) = frame[2].n + 1
    /\ Returning(2, "drop") /\ Returning(1, "try_pull") =>
          /\ frame[1].pool = frame[2].pool
          /\ frame[1].val = frame[2].val

\* C11 witness: a value of the pool was detached, pushed into, wrapped again
\* and dropped, and the next try_pull holds it with the byte in it.  (Only a
\* detached value can be pushed into in this specification.)
C11_Witness ==
    /\ Returning(2, "drop") /\ Returning(1, "try_pull")
    /\ frame[1].val.id \in 1 .. cap[1]
    /\ frame[1].val.data = << 1 >>

\* C12: a pool built by Pool::new with capacity C called init exactly C times,
\* holds C instances, all different, has cnt_fail 0, answers len() with C and
\* is_empty() with true exactly when C is 0.
C12_NewBuildsCapacity ==
    \A p \in Pools :
        /\ PoolNew(cap[p], 1 + SumTo(cap, p - 1)).inits = cap[p]
        /\ Len(objects[p]) = cap[p]
        /\ \A i, j \in 1 .. Len(objects[p]) : objects[p][i].id = objects[p][j].id => i = j
        /\ \A i \in 1 .. Len(objects[p]), q \in Pools \ {p} : IdleAt(q, objects[p][i].id) = {}
        /\ cnt_fail[p] = 0
        /\ \A t \in Threads :
              /\ Returning(t, "len") /\ frame[t].pool = p => frame[t].n = cap[p]
              /\ Returning(t, "is_empty") /\ frame[t].pool = p => (frame[t].b <=> cap[p] = 0)

\* C12 witness: is_empty() answered true on a pool built with capacity 0 while
\* len() answered the capacity of a pool built with instances.
C12_Witness ==
    \E t, u \in Threads :
        /\ Returning(t, "is_empty") /\ frame[t].b /\ cap[frame[t].pool] = 0
        /\ Returning(u, "len") /\ frame[u].n > 0 /\ frame[u].n = cap[frame[u].pool]

\* The step in which an operation of thread t takes effect on idle storage:
\* the write of a push or of a pop, the read of len.
Takes(t, p) == frame[t].pool = p /\ pc[t] = "cs2" /\ pc'[t] = "ret"
Reads(t, p) == frame[t].pool = p /\ pc[t] = "cs" /\ pc'[t] = "ret"

\* C13: attach, guard drop, try_pull and len running concurrently behave as
\* operations on one atomic stack: each takes effect in a single step between
\* its call and its return, a push appending its value to the storage of that
\* moment, a pop removing and returning the top of that moment (None when
\* empty), len returning the length of that moment; storage changes in no
\* other step; and no instance is lost or held twice: every instance is in
\* exactly one of storage, a guard, a caller's hands or an operation in flight.
C13_Linearizable ==
    [][/\ \A p \in Pools :
            /\ \A t \in Threads :
                  /\ Takes(t, p) /\ Op(t) \in {"attach", "drop"} =>
                        objects'[p] = Append(objects[p], frame[t].val)
                  /\ Takes(t, p) /\ Op(t) = "try_pull" =>
                        /\ frame'[t].val = StackTop(objects[p])
                        /\ objects'[p] = StackPop(objects[p], Len(objects[p]))
                  /\ Reads(t, p) /\ Op(t) = "len" => frame'[t].n = Len(objects[p])
                  /\ Reads(t, p) /\ Op(t) = "is_empty" =>
                        (frame'[t].b <=> objects[p] = << >>)
            /\ objects'[p] # objects[p] => \E t \in Threads : Takes(t, p)
       /\ \A id \in Ids' : Holders(id)' = 1
       /\ Quiet' => Len(objects'[1]) = nextId' - 1 - Cardinality(guards') - Cardinality(values')
      ]_vars

\* C13 witness: a try_pull is waiting for the lock of a pool while another
\* thread is in the middle of a push into it, a third instance being idle.
C13_Witness ==
    \E t, u \in Threads :
        /\ Op(t) = "try_pull" /\ pc[t] = "wait"
        /\ Op(u) \in {"attach", "drop"} /\ pc[u] = "cs2"
        /\ frame[t].pool = frame[u].pool
        /\ objects[frame[u].pool] # << >>

\* C14: a thread running the fallback closure inside pull holds no pool's
\* storage lock, and neither does a thread that is not inside an operation or
\* has got its result: the lock is held only between the lock() and the end
\* of the statement that reads or changes storage.
C14_NoLockInCallerCode ==
    \A t \in Threads :
        pc[t] \in {"fb", "done", "ret", "idle", "wait"} =>
            \A p \in Pools : lock[p] # t

\* C14 witness: while one thread is running fallback() for a pool, another
\* thread is inside the critical section of the same pool.
C14_Witness ==
    \E t, u \in Threads :
        /\ pc[t] = "fb" /\ Op(t) = "pull"
        /\ pc[u] \in {"cs", "cs2"}
        /\ frame[u].pool = frame[t].pool
        /\ lock[frame[t].pool] = u

\* C15: a try_pull that finds the pool's idle storage empty returns None and
\* changes nothing: storage stays empty, no instance is constructed, no guard
\* comes into existence, the pool's reference count is what it was before the
\* call; and it does not wait for an instance: with the lock taken its every
\* step is enabled whatever storage holds.
C15_EmptyTryPull ==
    [][\A t \in Threads :
          LET p == frame[t].pool IN
          /\ Op(t) = "try_pull" /\ pc[t] = "cs" /\ pc'[t] = "cs2" /\ objects[p] = << >> =>
                frame'[t].val = NoVal
          /\ Op(t) = "try_pull" /\ pc[t] = "cs2" /\ pc'[t] = "ret" /\ objects[p] = << >> =>
                /\ frame'[t].val = NoVal
                /\ objects' = objects
                /\ strong' = strong
                /\ guards' = guards /\ values' = values /\ nextId' = nextId
          /\ Op(t) = "try_pull" /\ pc[t] = "ret" /\ pc'[t] = "idle" /\ frame[t].val = NoVal =>
                /\ objects' = objects
                /\ guards' = guards /\ values' = values /\ nextId' = nextId
                /\ Cardinality({g \in guards' : g.pool = p}) = Cardinality({g \in guards : g.pool = p})
          /\ Op(t) = "try_pull" /\ pc[t] = "cs" => ENABLED PopRead(t)
          /\ Op(t) = "try_pull" /\ pc[t] = "cs2" => ENABLED PopWrite(t)
          /\ Op(t) = "try_pull" /\ pc[t] = "ret" => ENABLED TryPullReturn(t)
      ]_vars

\* C15 witness: a pool built with instances has them all borrowed and a
\* try_pull on it has None to return.
C15_Witness ==
    \E t \in Threads :
        /\ Returning(t, "try_pull") /\ frame[t].val = NoVal
        /\ cap[frame[t].pool] > 0
        /\ objects[frame[t].pool] = << >>
        /\ guards # {}

\* Custody of an instance: idle in a pool's storage, borrowed (in a guard, in
\* a try_pull or pull that has popped it, in a drop that has not pushed it
\* yet), detached (a plain value of a caller, or of an attach that has not
\* pushed it yet), or gone.
Custody(id) ==
    IF SumIdle(id) > 0 THEN "idle"
    ELSE IF GuardsOf(id) # {} \/ \E t \in FramesOf(id) : Op(t) \in {"try_pull", "pull", "drop"}
         THEN "borrowed"
    ELSE IF ValuesOf(id) # {} \/ \E t \in FramesOf(id) : Op(t) = "attach"
         THEN "detached"
    ELSE "gone"

\* The step that moves instance id from one custody to another.
Moves(id, from, to) ==
    LET popped == \E t \in Threads :
                      /\ pc[t] = "cs2" /\ pc'[t] = "ret" /\ frame[t].val.id = id
                      /\ Op(t) \in {"try_pull", "pull"}
        pushed(ops) == \E t \in Threads :
                      /\ pc[t] = "cs2" /\ pc'[t] = "ret" /\ frame[t].val.id = id
                      /\ Op(t) \in ops
    IN  CASE from = "idle" /\ to = "borrowed" -> popped
          [] from = "borrowed" /\ to = "idle" -> pushed({"drop"})
          [] from = "borrowed" /\ to = "detached" ->
                 \E g \in GuardsOf(id) : g \notin guards' /\ g.data \in values'
          [] from = "detached" /\ to = "borrowed" ->
                 \E v \in ValuesOf(id) : v \notin values' /\ \E g \in guards' : g.data = v
          [] from = "detached" /\ to = "idle" -> pushed({"attach"})
          [] from = "borrowed" /\ to = "gone" ->
                 \E g \in GuardsOf(id) : g.pool = NoPool /\ g \notin guards'
          [] from = "detached" /\ to = "gone" ->
                 \E v \in ValuesOf(id) : v \notin values'
          [] OTHER -> FALSE

\* The pool whose storage held instance id is destroyed in this step.
Destroyed(id) == \E p \in Pools : IdleAt(p, id) # {} /\ alive[p] /\ ~alive'[p]

\* C16 as stated: custody moves only along Idle->Borrowed (try_pull, pull),
\* Borrowed->Idle (drop of a guard with a pool), Borrowed->Detached (detach),
\* Detached->Borrowed (Reusable::new), Detached->Idle (attach) and
\* Borrowed/Detached->gone; an idle instance leaves storage only by a pop.
C16_Original ==
    [][\A id \in Ids :
          Custody(id)' # Custody(id) => Moves(id, Custody(id), Custody(id)')
      ]_vars

\* C16 amended: custody moves only along those transitions and, besides,
\* Idle->gone when the pool itself is destroyed (its last Arc released), which
\* destroys the instances idle in it; an instance that is constructed starts
\* borrowed (fallback) or detached (made by a caller).
C16_Custody ==
    [][/\ \A id \in Ids :
             Custody(id)' # Custody(id) =>
                 \/ Moves(id, Custody(id), Custody(id)')
                 \/ Custody(id) = "idle" /\ Custody(id)' = "gone" /\ Destroyed(id)
       /\ \A id \in Ids' \ Ids : Custody(id)' \in {"borrowed", "detached"}
      ]_vars

\* C16 witness: the pool has been destroyed and an instance it was built
\* with, idle until then, is gone with it.
C16_Witness ==
    /\ ~alive[1]
    /\ \E id \in 1 .. cap[1] : Custody(id) = "gone"

\* C17: attach has no capacity ceiling: whatever the pool holds, also when
\* that is the initial capacity or more, the push of an attach is enabled and
\* leaves storage one longer, with the attached value in it.
C17_AttachUnbounded ==
    [][\A t \in Threads :
          LET p == frame[t].pool IN
          /\ Op(t) = "attach" /\ pc[t] = "cs" => ENABLED PushRead(t)
          /\ Op(t) = "attach" /\ pc[t] = "cs2" => ENABLED PushWrite(t)
          /\ Op(t) = "attach" /\ pc[t] = "cs2" /\ pc'[t] = "ret" =>
                /\ Len(objects'[p]) = Len(objects[p]) + 1
                /\ IdleAt(p, frame[t].val.id)' # {}
      ]_vars

\* C17 witness: an attach has returned and the pool holds more idle instances
\* than it was built with.
C17_Witness ==
    \E t \in Threads :
        /\ Returning(t, "attach")
        /\ Len(objects[frame[t].pool]) > cap[frame[t].pool]
        /\ cap[frame[t].pool] > 0

\* C18: idle storage is a stack. A push (attach or guard drop) puts its value
\* above every instance already idle and moves none of them; a successful
\* try_pull returns the instance on top, which is the one pushed most
\* recently among the idle ones, and leaves the others where they were.
C18_StackDiscipline ==
    [][\A t \in Threads :
          LET p == frame[t].pool
              n == Len(objects[p])
          IN
          /\ Op(t) \in {"attach", "drop"} /\ pc[t] = "cs2" /\ pc'[t] = "ret" =>
                /\ Len(objects'[p]) = n + 1
                /\ objects'[p][n + 1] = frame[t].val
                /\ \A i \in 1 .. n : objects'[p][i] = objects[p][i]
          /\ Op(t) = "try_pull" /\ pc[t] = "cs2" /\ pc'[t] = "ret" /\ n > 0 =>
                /\ frame'[t].val = objects[p][n]
                /\ Len(objects'[p]) = n - 1
                /\ \A i \in 1 .. n - 1 : objects'[p][i] = objects[p][i]
      ]_vars

\* C18 witness: the pool was built with instances 1 and 2, 2 on top; both
\* were taken and put back, 1 last, and a try_pull has taken 1 and left 2.
C18_Witness ==
    \E t \in Threads :
        /\ Returning(t, "try_pull") /\ frame[t].pool = 1
        /\ cap[1] = 2
        /\ frame[t].val.id = 1
        /\ Len(objects[1]) = 1 /\ objects[1][1].id = 2

\* Threads between the lock() of pool p's storage and the end of the
\* statement that took it.
InCritical(p) == {t \in Threads : pc[t] \in {"cs", "cs2"} /\ frame[t].pool = p}

\* C19: for every pool at most one thread is inside the critical section of
\* len, is_empty, attach (also the one reached by a guard's drop) or
\* try_pull, and it is the thread that holds the pool's lock; storage is
\* written only by the holder of the lock, and a thread takes a length or a
\* slot of storage into its frame only while it holds the lock.
C19_MutualExclusion ==
    [][\A p \in Pools :
          /\ Cardinality(InCritical(p)) <= 1
          /\ Cardinality(InCritical(p)') <= 1
          /\ \A t \in Threads : t \in InCritical(p) <=> lock[p] = t
          /\ \A t \in Threads : t \in InCritical(p)' <=> lock'[p] = t
          /\ objects'[p] # objects[p] => lock[p] # NoThread
          /\ \A t \in Threads :
                /\ frame[t].pool = p /\ pc[t] # "idle" /\ pc'[t] # "idle"
                /\ << frame'[t].n, frame'[t].b, frame'[t].val >>
                       # << frame[t].n, frame[t].b, frame[t].val >>
                => lock[p] = t
      ]_vars

\* C19 witness: a thread is reading the length inside len or is_empty while
\* another, which called attach on the same pool, waits for the lock.
C19_Witness ==
    \E t, u \in Threads :
        /\ Op(t) \in {"len", "is_empty"} /\ pc[t] = "cs"
        /\ Op(u) = "attach" /\ pc[u] = "wait"
        /\ frame[t].pool = frame[u].pool
        /\ lock[frame[t].pool] = t

\* C20: under fair scheduling every operation a thread has started (len,
\* is_empty, attach, try_pull, pull, the drop of a guard) returns to its
\* caller; every pull reaches its return with a guard to give; a thread never
\* waits for a lock it holds itself, and whenever every thread is waiting for
\* a lock one of them can take it.
C20_Progress ==
    /\ \A t \in Threads : (pc[t] # "idle") ~> (pc[t] = "idle")
    /\ \A t \in Threads :
          (Op(t) = "pull") ~> (Op(t) = "pull" /\ pc[t] = "done" /\ frame[t].val # NoVal)
    /\ [](\A t \in Threads : pc[t] = "wait" => lock[frame[t].pool] # t)
    /\ []((\A t \in Threads : pc[t] = "wait") => \E t \in Threads : ENABLED Lock(t))

\* C20 witness: every thread has started an operation and is waiting for the
\* same pool's lock, one of them inside pull.
C20_Witness ==
    /\ \A t \in Threads : pc[t] = "wait" /\ frame[t].pool = 1
    /\ \E t \in Threads : Op(t) = "pull"
    /\ \E t \in Threads : Op(t) = "drop"

====
